---- MODULE Spec2Model ----
(***************************************************************************)
(* Model of the three scraping scripts of the repository:                  *)
(*   - scrapeDentists            (src/unnamed/part_001, sequential)        *)
(*   - scrapeReikiPractitioners  (src/src/scrapers/index.js:1-271,         *)
(*                                four concurrently running country tasks) *)
(*   - main                      (src/src/scrapers/index.js:272-468,       *)
(*                                Places API search + details phase)       *)
(* One behaviour runs one script; `script` says which.  Every await whose  *)
(* outcome the environment decides (navigation, page open/close, HTTP      *)
(* fetch) is a nondeterministic choice between resolving and rejecting.    *)
(***************************************************************************)
EXTENDS Integers, Sequences, FiniteSets, TLC

\* ---------------------------------------------------------------- bounds
\* number of listing identifiers the map source can yield
NumIds == 2
\* longest feed (parsed listing containers) of one city attempt
MaxFeed == 3
\* longest feed of one country attempt
MaxReikiFeed == 2
\* number of cities of scrapeDentists (the source lists 6)
NumCities == 3
\* results cap of scrapeDentists (500 in the source), scaled down
DentistsCap == 2
\* results cap of scrapeReikiPractitioners (100 in the source), scaled down
ReikiCap == 2
\* number of country tasks (the source lists 4 countries), scaled down
NumCountries == 3
\* const concurrencyLimit = 2
concurrencyLimit == 2
\* number of LOCATIONS of main (the source lists 15)
NumLocations == 3
\* the records.size >= 100 / slice(0, 100) cap of main, scaled down
PlacesCap == 2
\* longest results array of one textSearch response
MaxPage == 2
\* pMap(..., { concurrency: 3 })
pMapConcurrency == 3
\* pRetry(() => getPlaceDetails(place_id), { retries: 2 })
detailsRetries == 2
\* for (let i = 0; i < 2 && token; i++)
maxNextPages == 2

Ids == 1..NumIds
Cities == 1..NumCities
\* country task t runs countries[t - 1]
Countries == 1..NumCountries
Locations == 1..NumLocations

RECURSIVE SeqsUpTo(_, _)
SeqsUpTo(S, n) ==
  IF n = 0 THEN {<<>>}
  ELSE LET shorter == SeqsUpTo(S, n - 1)
       IN  shorter \cup {Append(s, x) : s \in {q \in shorter : Len(q) = n - 1}, x \in S}

\* what cheerio can parse out of a rendered feed: listing containers in
\* document order, identified by their /maps/place/ href
Feeds == SeqsUpTo(Ids, MaxFeed)
ReikiFeeds == SeqsUpTo(Ids, MaxReikiFeed)

Websites == {"", "w"}

VARIABLES
  script,        \* which script this run executes
  browser,       \* "none" | "open" | "closed"
  results,       \* const results = []
  index,         \* let index = 1
  exitCode,      \* -1 while running, else the process.exit status
  csvWritten,    \* whether the CSV file was written, and its rows
  \* ---- scrapeDentists
  d_pc, city, attempt, citySuccess, page, parents, pos,
  queried,       \* cities whose search page was navigated to
  fetches,       \* website fetches issued by scrapeWebsiteForEmail(url)
  attempts,      \* attempts started so far, per city
  scrollOutcome, \* how the Promise.race of the current attempt settled
  rendered,      \* listing containers in the feed when the race settled
  startLen,      \* results.length when the current attempt started
  yielded,       \* per city, the number of listings its parsed feed held
  \* ---- scrapeReikiPractitioners, one entry per country task
  r_pc, r_attempt, countrySuccess, r_page,
  r_parents,     \* the parents the for loop has not finished, current one first
  r_maxPusher,   \* the last in list order of the country tasks that have pushed, or 0
  \* ---- main (Places API)
  a_pc, loc, records, pageI, token, placeIds, workers, tries, details, jsonWritten,
  firstSeen,     \* per place_id, the first search result that carried it
  dupSeen,       \* a search result repeated a place_id with another name or address
  deniedAt,      \* the location whose first textSearch was denied, or 0
  fatalIn,       \* the phase whose exception reached main's catch
  \* ---- one call of an email extractor
  extractor,     \* which of the three extractors is called
  e_pc, e_url,
  e_path,        \* position in possiblePaths of the next path to probe
  e_tab,         \* the page scrapeWebsiteForEmail(url, browser) opens
  e_result,      \* the value returned, "pending" before the return
  e_content,     \* the content of the page fetched last
  e_loaded,      \* the pages loaded so far: path and the valid email on it
  e_onlyExample, \* every page fetched so far is free of other email-shaped strings
  \* ---- one call of autoScroll, inside page.evaluate
  s_pc,          \* "run" until resolve() is called
  scrollHeight,  \* wrapper.scrollHeight, in multiples of distance
  totalHeight,   \* let totalHeight = 0, in multiples of distance
  timer,         \* the interval timer: "set" | "cleared"
  sleepers,      \* callbacks inside their settle delay, oldest first
  s_grown,       \* how often the feed has grown
  s_settled,     \* the measurements of the callback that called resolve()
  s_overlapped   \* two callbacks were inside their settle delay at once

sharedVars == <<script, browser, results, index, exitCode, csvWritten>>
dGhost == <<scrollOutcome, rendered, startLen, yielded>>
dVars == <<d_pc, city, attempt, citySuccess, page, parents, pos, queried, fetches, attempts, dGhost>>
rVars == <<r_pc, r_attempt, countrySuccess, r_page, r_parents, r_maxPusher>>
aGhost == <<firstSeen, dupSeen, deniedAt, fatalIn>>
aVars == <<a_pc, loc, records, pageI, token, placeIds, workers, tries, details, jsonWritten,
          aGhost>>
sVars == <<s_pc, scrollHeight, totalHeight, timer, sleepers, s_grown, s_settled, s_overlapped>>
eGhost == <<e_content, e_loaded, e_onlyExample>>
eVars == <<extractor, e_pc, e_url, e_path, e_tab, e_result, eGhost>>
vars == <<sharedVars, dVars, rVars, aVars, eVars, sVars>>

NotWritten == [done |-> FALSE, rows |-> <<>>]
Written(rows) == [done |-> TRUE, rows |-> rows]

\* ------------------------------------------------------- scrapeDentists
\* results.push({ index: index++, clinicName, ..., googleUrl: url }): the
\* fields that are parsed or fetched, pushed and never read again by any
\* step (clinicName, dentistName, address, phone, email, website) are left out
DentistRecord(i, url) == [index |-> i, googleUrl |-> url]

\* the counter left unchanged by the push
NextIndexStuck(i) == i

\* index++ inside results.push({ index: index++, ... })
NextIndex(i) == i + 1

\* the variables of a script that this run does not execute
DIdle ==
  /\ d_pc = "off" /\ city = 1 /\ attempt = 0 /\ citySuccess = FALSE
  /\ page = "undefined" /\ parents = <<>> /\ pos = 1 /\ queried = {}
  /\ fetches = 0 /\ attempts = [c \in Cities |-> 0]
  /\ scrollOutcome = "none" /\ rendered = <<>> /\ startLen = 0
  /\ yielded = [c \in Cities |-> 0]

AIdle ==
  /\ a_pc = "off" /\ loc = 1 /\ records = <<>> /\ pageI = 0 /\ token = FALSE
  /\ placeIds = <<>> /\ workers = <<>> /\ tries = <<>> /\ details = <<>> /\ jsonWritten = NotWritten
  /\ firstSeen = [id \in Ids |-> <<>>] /\ dupSeen = FALSE /\ deniedAt = 0
  /\ fatalIn = "none"

RIdle ==
  /\ r_pc = [t \in Countries |-> "off"]
  /\ r_attempt = [t \in Countries |-> 0]
  /\ countrySuccess = [t \in Countries |-> FALSE]
  /\ r_page = [t \in Countries |-> "undefined"]
  /\ r_parents = [t \in Countries |-> <<>>]
  /\ r_maxPusher = 0

EIdle ==
  /\ extractor = "none" /\ e_pc = "off" /\ e_url = "" /\ e_path = 1 /\ e_tab = "none"
  /\ e_result = "pending" /\ e_content = <<>> /\ e_loaded = <<>> /\ e_onlyExample = TRUE

SIdle ==
  /\ s_pc = "off" /\ scrollHeight = 1 /\ totalHeight = 0 /\ timer = "none"
  /\ sleepers = <<>> /\ s_grown = 0 /\ s_settled = <<>> /\ s_overlapped = FALSE

\* the cap test written with > in place of >=
CapReachedOffByOne(res) == Len(res) > DentistsCap

\* if (results.length >= 500)
CapReached(res) == Len(res) >= DentistsCap

InitD ==
  /\ script = "dentists"
  /\ browser = "none"
  /\ results = <<>>
  /\ index = 1
  /\ exitCode = -1
  /\ csvWritten = NotWritten
  /\ d_pc = "launch"
  /\ city = 1
  /\ attempt = 0
  /\ citySuccess = FALSE
  /\ page = "undefined"
  /\ parents = <<>>
  /\ pos = 1
  /\ queried = {}
  /\ fetches = 0
  /\ attempts = [c \in Cities |-> 0]
  /\ scrollOutcome = "none"
  /\ rendered = <<>>
  /\ startLen = 0
  /\ yielded = [c \in Cities |-> 0]
  /\ RIdle
  /\ AIdle
  /\ EIdle
  /\ SIdle

\* puppeteerExtra.launch(...): a rejection propagates out of scrapeDentists
\* to the entry point's catch, which exits with status 1
D_Launch ==
  /\ script = "dentists" /\ d_pc = "launch"
  /\ UNCHANGED <<rVars, aVars, eVars, sVars>>
  /\ \E ok \in BOOLEAN :
       IF ok THEN /\ browser' = "open"
                  /\ d_pc' = "while"
                  /\ exitCode' = exitCode
             ELSE /\ browser' = browser
                  /\ d_pc' = "exited"
                  /\ exitCode' = 1
  /\ UNCHANGED <<script, results, index, csvWritten, city, attempt, citySuccess,
                 page, parents, pos, queried, fetches, attempts, dGhost>>

\* while (attempt < 2 && !citySuccess) { let page; try { attempt++; page = await browser.newPage();
D_StartAttempt ==
  /\ script = "dentists" /\ d_pc = "while"
  /\ UNCHANGED <<rVars, aVars, eVars, sVars>>
  /\ attempt < 2 /\ ~citySuccess
  /\ attempt' = attempt + 1
  /\ attempts' = [attempts EXCEPT ![city] = @ + 1]
  /\ \E ok \in BOOLEAN :
       IF ok THEN page' = "open" /\ d_pc' = "goto"
             ELSE page' = "undefined" /\ d_pc' = "catch"
  /\ startLen' = Len(results)
  /\ UNCHANGED <<sharedVars, city, citySuccess, parents, pos, queried, fetches, yielded,
                 scrollOutcome, rendered>>

\* await page.goto(search url, {timeout: 60000})
D_Goto ==
  /\ script = "dentists" /\ d_pc = "goto"
  /\ UNCHANGED <<rVars, aVars, eVars, sVars>>
  /\ queried' = queried \cup {city}
  /\ \E ok \in BOOLEAN : d_pc' = IF ok THEN "scroll" ELSE "catch"
  /\ UNCHANGED <<sharedVars, city, attempt, citySuccess, page, parents, pos, fetches, attempts,
                 dGhost>>

\* await Promise.race([autoScroll(page), 90 s timeout]); then page.content()
\* is parsed into parents.  autoScroll throws when the feed panel is
\* missing; the race rejects on the scroll timeout.
D_Scroll ==
  /\ script = "dentists" /\ d_pc = "scroll"
  /\ UNCHANGED <<rVars, aVars, eVars, sVars>>
  /\ \E outcome \in {"done", "noFeed", "timeout"} :
       /\ scrollOutcome' = outcome
       /\ \E feed \in (IF outcome = "noFeed" THEN {<<>>} ELSE Feeds) :
            /\ rendered' = feed
            /\ IF outcome = "done"
                 THEN /\ parents' = feed /\ pos' = 1 /\ d_pc' = "for"
                      /\ yielded' = [yielded EXCEPT ![city] = Len(feed)]
                 ELSE /\ parents' = parents /\ pos' = pos /\ d_pc' = "catch"
                      /\ yielded' = yielded
  /\ UNCHANGED <<sharedVars, city, attempt, citySuccess, page, queried, fetches, attempts,
                 startLen>>

\* one iteration of for (const parent of parents): parse, fetch the email
\* when the listing has a website, push, test the cap.  The axios-backed
\* scrapeWebsiteForEmail(url) has everything after its empty-url test inside
\* try/catch: it returns an email or null and never throws.
D_Listing ==
  /\ script = "dentists" /\ d_pc = "for"
  /\ UNCHANGED <<rVars, aVars, eVars, sVars>>
  /\ pos <= Len(parents)
  /\ \E website \in Websites :
       fetches' = IF website = "" THEN fetches ELSE fetches + 1
  /\ results' = Append(results, DentistRecord(index, parents[pos]))
  /\ index' = NextIndex(index)
  /\ pos' = pos + 1
  /\ IF CapReached(results')
       THEN citySuccess' = TRUE /\ d_pc' = "finally"
       ELSE citySuccess' = citySuccess /\ d_pc' = "for"
  /\ UNCHANGED <<script, browser, exitCode, csvWritten, city, attempt, page, parents,
                 queried, attempts, dGhost>>

\* the for loop ran out of parents: citySuccess = true
D_EndFor ==
  /\ script = "dentists" /\ d_pc = "for"
  /\ UNCHANGED <<rVars, aVars, eVars, sVars>>
  /\ pos > Len(parents)
  /\ citySuccess' = TRUE
  /\ d_pc' = "finally"
  /\ UNCHANGED <<sharedVars, city, attempt, page, parents, pos, queried, fetches, attempts,
                 dGhost>>

\* catch (err) { console.warn(...) }
D_Catch ==
  /\ script = "dentists" /\ d_pc = "catch"
  /\ UNCHANGED <<rVars, aVars, eVars, sVars>>
  /\ d_pc' = "finally"
  /\ UNCHANGED <<sharedVars, city, attempt, citySuccess, page, parents, pos, queried,
                 fetches, attempts, dGhost>>

\* finally { if (page) { try { await page.close() } catch (_) {} } }
\* if (results.length >= 500) break;
\* (parents and the other locals of the try block are out of scope here)
D_Finally ==
  /\ script = "dentists" /\ d_pc = "finally"
  /\ UNCHANGED <<rVars, aVars, eVars, sVars>>
  /\ IF page = "open"
       THEN \E ok \in BOOLEAN : page' = IF ok THEN "closed" ELSE "closeFailed"
       ELSE page' = page
  /\ d_pc' = IF CapReached(results) THEN "afterWhile" ELSE "while"
  /\ parents' = <<>> /\ pos' = 1
  /\ scrollOutcome' = "none" /\ rendered' = <<>> /\ startLen' = 0
  /\ UNCHANGED <<sharedVars, city, attempt, citySuccess, queried, fetches, attempts, yielded>>

\* the while condition is false
D_WhileExit ==
  /\ script = "dentists" /\ d_pc = "while"
  /\ UNCHANGED <<rVars, aVars, eVars, sVars>>
  /\ ~(attempt < 2 /\ ~citySuccess)
  /\ d_pc' = "afterWhile"
  /\ UNCHANGED <<sharedVars, city, attempt, citySuccess, page, parents, pos, queried,
                 fetches, attempts, dGhost>>

\* if (results.length >= 500) break;  else the next city of for (const city of cities)
D_NextCity ==
  /\ script = "dentists" /\ d_pc = "afterWhile"
  /\ UNCHANGED <<rVars, aVars, eVars, sVars>>
  /\ IF CapReached(results) \/ city = NumCities
       THEN /\ d_pc' = "closeBrowser"
            /\ UNCHANGED <<city, attempt, citySuccess, page>>
       ELSE /\ d_pc' = "while"
            /\ city' = city + 1
            /\ attempt' = 0
            /\ citySuccess' = FALSE
            /\ page' = "undefined"
  /\ UNCHANGED <<sharedVars, parents, pos, queried, fetches, attempts, dGhost>>

\* await browser.close(); return results;  then the entry point:
\* await csvWriter.writeRecords(data); process.exit(0)
D_Finish ==
  /\ script = "dentists" /\ d_pc = "closeBrowser"
  /\ UNCHANGED <<rVars, aVars, eVars, sVars>>
  /\ browser' = "closed"
  /\ csvWritten' = Written(results)
  /\ exitCode' = 0
  /\ d_pc' = "exited"
  /\ UNCHANGED <<script, results, index, city, attempt, citySuccess, page, parents, pos,
                 queried, fetches, attempts, dGhost>>

NextD ==
  \/ D_Launch
  \/ D_StartAttempt
  \/ D_Goto
  \/ D_Scroll
  \/ D_Listing
  \/ D_EndFor
  \/ D_Catch
  \/ D_Finally
  \/ D_WhileExit
  \/ D_NextCity
  \/ D_Finish

SpecD == InitD /\ [][NextD]_vars

\* ---------------------------------------------- scrapeReikiPractitioners
\* Steps of a country task that neither read nor write results (the shared
\* state of the tasks) are taken together with the step that follows them,
\* so a task is observed at: its timer, the search of an attempt, the
\* fetches of one listing, and the 1 s sleep after a push.

\* results.push({ index: index++, practitionerName, ..., googleUrl }): the
\* fields that are parsed or fetched, pushed and never read again by any
\* step (practitionerName, address, phone, email, website) are left out
ReikiRecord(i, url) == [index |-> i, googleUrl |-> url]

InitR ==
  /\ script = "reiki"
  /\ browser = "none"
  /\ results = <<>>
  /\ index = 1
  /\ exitCode = -1
  /\ csvWritten = NotWritten
  /\ DIdle
  /\ AIdle
  /\ EIdle
  /\ SIdle
  /\ r_pc = [t \in Countries |-> "notStarted"]
  /\ r_attempt = [t \in Countries |-> 0]
  /\ countrySuccess = [t \in Countries |-> FALSE]
  /\ r_page = [t \in Countries |-> "undefined"]
  /\ r_parents = [t \in Countries |-> <<>>]
  /\ r_maxPusher = 0

RunningR == script = "reiki" /\ browser = "open" /\ exitCode = -1

\* while (attempt < 2 && !countrySuccess && results.length < 100)
WhileCond(att, success) == att < 2 /\ ~success /\ Len(results) < ReikiCap

\* how page.close() of the finally block can settle: nothing is awaited
\* when page is undefined; closing an already closed page (the page of the
\* previous attempt, when this attempt's newPage failed) rejects; closing
\* an open page resolves or rejects
CloseOutcomes(pg) ==
  IF pg = "undefined" THEN {"skipped"}
  ELSE IF pg = "open" THEN {"closed", "rejected"}
  ELSE {"rejected"}

\* the try block of task t is left with countrySuccess = success and page
\* = pg: } catch (err) { console.warn } finally { if (page) await
\* page.close(); } and the loop head.  A rejected close leaves the task:
\* Promise.all rejects, scrapeReikiPractitioners throws past
\* browser.close() and the entry point's catch exits with status 1.
LeaveTry(t, success, pg) ==
  /\ countrySuccess' = [countrySuccess EXCEPT ![t] = success]
  /\ r_parents' = [r_parents EXCEPT ![t] = <<>>]
  /\ \E c \in CloseOutcomes(pg) :
       IF c = "rejected"
         THEN /\ r_page' = [r_page EXCEPT ![t] = pg]
              /\ r_pc' = [r_pc EXCEPT ![t] = "rejected"]
              /\ r_attempt' = r_attempt
              /\ exitCode' = 1
         ELSE /\ r_page' = [r_page EXCEPT ![t] = IF c = "closed" THEN "closed" ELSE pg]
              /\ exitCode' = exitCode
              /\ IF WhileCond(r_attempt[t], success)
                   THEN /\ r_attempt' = [r_attempt EXCEPT ![t] = @ + 1]
                        /\ r_pc' = [r_pc EXCEPT ![t] = "search"]
                   ELSE /\ r_attempt' = r_attempt
                        /\ r_pc' = [r_pc EXCEPT ![t] = "done"]

\* the head of for (const parent of parents) with ps left to iterate:
\* after the last parent countrySuccess = true and the try block is left;
\* otherwise the listing is parsed and its fetches are issued
BeginListing(t, ps) ==
  IF ps = <<>>
    THEN LeaveTry(t, TRUE, "open")
    ELSE /\ countrySuccess' = countrySuccess
         /\ r_parents' = [r_parents EXCEPT ![t] = ps]
         /\ r_pc' = [r_pc EXCEPT ![t] = "listing"]
         /\ r_page' = [r_page EXCEPT ![t] = "open"]
         /\ UNCHANGED <<r_attempt, exitCode>>

\* puppeteerExtra.launch(...), then Promise.all(countryPromises.map(...)):
\* the tasks with i % concurrencyLimit === 0 run at once up to their first
\* await (attempt++, browser.newPage()), the others wait for their
\* i * 1000 ms timer
R_Launch ==
  /\ script = "reiki" /\ browser = "none" /\ exitCode = -1
  /\ UNCHANGED <<dVars, aVars, eVars, sVars, script, results, index, csvWritten>>
  /\ \E ok \in BOOLEAN :
       IF ok
         THEN /\ browser' = "open"
              /\ exitCode' = exitCode
              /\ r_pc' = [t \in Countries |->
                            IF (t - 1) % concurrencyLimit = 0
                              THEN IF WhileCond(0, FALSE) THEN "search" ELSE "done"
                              ELSE "timer"]
              /\ r_attempt' = [t \in Countries |->
                            IF (t - 1) % concurrencyLimit = 0 /\ WhileCond(0, FALSE)
                              THEN 1 ELSE 0]
         ELSE /\ browser' = browser
              /\ exitCode' = 1
              /\ UNCHANGED <<r_pc, r_attempt>>
  /\ UNCHANGED <<countrySuccess, r_page, r_parents, r_maxPusher>>

\* setTimeout(resolve, i * 1000).then(task): timers fire in order of delay
R_Timer(t) ==
  /\ RunningR /\ r_pc[t] = "timer"
  /\ \A u \in Countries : r_pc[u] = "timer" => u >= t
  /\ IF WhileCond(0, FALSE)
       THEN /\ r_attempt' = [r_attempt EXCEPT ![t] = 1]
            /\ r_pc' = [r_pc EXCEPT ![t] = "search"]
       ELSE /\ r_attempt' = r_attempt
            /\ r_pc' = [r_pc EXCEPT ![t] = "done"]
  /\ UNCHANGED <<sharedVars, dVars, aVars, eVars, sVars, countrySuccess, r_page, r_parents,
                 r_maxPusher>>

\* page = await browser.newPage(); await page.goto(searchUrl);
\* await Promise.race([autoScroll(page), 90 s timeout]);
\* html = await page.content(); parents are parsed and the for loop starts.
\* A rejection is caught by the task's catch; when newPage rejects, `page`
\* keeps the value the previous attempt left in it.
R_Search(t) ==
  /\ RunningR /\ r_pc[t] = "search"
  /\ \E outcome \in {"done", "newPageFailed", "gotoFailed", "noFeed", "timeout"} :
       IF outcome = "done"
         THEN \E feed \in ReikiFeeds : BeginListing(t, feed)
         ELSE LeaveTry(t, FALSE, IF outcome = "newPageFailed" THEN r_page[t] ELSE "open")
  /\ UNCHANGED <<script, browser, results, index, csvWritten, dVars, aVars, eVars, sVars,
                 r_maxPusher>>

\* one listing of the for loop:
\*   website = inline link, or await scrapeListingDetails(page, googleUrl),
\*             which catches everything and returns "" or a url;
\*   email = website ? await scrapeWebsiteForEmail(website, browser) : "";
\*     const page = await browser.newPage()   before the try: a rejection
\*                                             propagates to the caller
\*     try { loop over possiblePaths } catch { return null }
\*     finally { await page.close() }          a rejection replaces the
\*                                             return value and propagates
\*   results.push({ index: index++, ... }); then the 1 s sleep
R_Listing(t) ==
  /\ RunningR /\ r_pc[t] = "listing"
  /\ \E website \in Websites :
       \E outcome \in (IF website = "" THEN {"noWebsite"}
                       ELSE {"returned", "newPageFailed", "closeFailed"}) :
         IF outcome \in {"noWebsite", "returned"}
           THEN /\ results' = Append(results, ReikiRecord(index, Head(r_parents[t])))
                /\ index' = NextIndex(index)
                /\ r_parents' = [r_parents EXCEPT ![t] = Tail(@)]
                /\ r_pc' = [r_pc EXCEPT ![t] = "sleep"]
                /\ r_maxPusher' = IF t > r_maxPusher THEN t ELSE r_maxPusher
                /\ UNCHANGED <<countrySuccess, r_page, r_attempt, exitCode>>
           ELSE /\ LeaveTry(t, FALSE, "open")
                /\ UNCHANGED <<results, index, r_maxPusher>>
  /\ UNCHANGED <<script, browser, csvWritten, dVars, aVars, eVars, sVars>>

\* after the 1 s sleep: if (results.length >= 100) break; else the next parent
R_Wake(t) ==
  /\ RunningR /\ r_pc[t] = "sleep"
  /\ IF Len(results) >= ReikiCap
       THEN LeaveTry(t, TRUE, "open")
       ELSE BeginListing(t, r_parents[t])
  /\ UNCHANGED <<script, browser, results, index, csvWritten, dVars, aVars, eVars, sVars,
                 r_maxPusher>>

\* Promise.all resolved: await browser.close(); return results; then the
\* entry point: await csvWriter.writeRecords(data); process.exit(0)
R_Finish ==
  /\ RunningR
  /\ \A t \in Countries : r_pc[t] = "done"
  /\ browser' = "closed"
  /\ csvWritten' = Written(results)
  /\ exitCode' = 0
  /\ UNCHANGED <<script, results, index, dVars, aVars, rVars, eVars, sVars>>

NextR ==
  \/ R_Launch
  \/ \E t \in Countries : R_Timer(t)
  \/ \E t \in Countries : R_Search(t)
  \/ \E t \in Countries : R_Listing(t)
  \/ \E t \in Countries : R_Wake(t)
  \/ R_Finish

SpecR == InitR /\ [][NextR]_vars

\* ------------------------------------------------------ main (Places API)
\* the name / formatted_address pairs a search result can carry
Variants == {[name |-> "n1", formatted_address |-> "a1"],
             [name |-> "n2", formatted_address |-> "a2"]}

\* one element of json.results of a text search
SearchResults ==
  {[place_id |-> id, name |-> v.name, formatted_address |-> v.formatted_address] :
     id \in Ids, v \in Variants}

\* json.results of one response
ResultPages == SeqsUpTo(SearchResults, MaxPage)

\* records.has(place_id), records being a Map in insertion order
Has(recs, id) == \E i \in DOMAIN recs : recs[i].place_id = id

\* records.set(key, value): a present key keeps its position and gets the
\* new value, an absent key is appended
MapSet(recs, rec) ==
  IF Has(recs, rec.place_id)
    THEN [i \in DOMAIN recs |-> IF recs[i].place_id = rec.place_id THEN rec ELSE recs[i]]
    ELSE Append(recs, rec)

\* the insertion without its records.has guard
AddResultUnguarded(recs, r) ==
  MapSet(recs, [place_id |-> r.place_id, name |-> r.name, address |-> r.formatted_address])

\* if (!records.has(r.place_id)) records.set(r.place_id, { place_id, name, address })
AddResult(recs, r) ==
  IF ~Has(recs, r.place_id)
    THEN MapSet(recs, [place_id |-> r.place_id, name |-> r.name, address |-> r.formatted_address])
    ELSE recs

\* for (const r of page.results) { ... }
RECURSIVE AddResults(_, _)
AddResults(recs, rs) ==
  IF rs = <<>> THEN recs ELSE AddResults(AddResult(recs, Head(rs)), Tail(rs))

\* bookkeeping of the first result seen per place_id
RECURSIVE NoteFirstSeen(_, _)
NoteFirstSeen(fs, rs) ==
  IF rs = <<>> THEN fs
  ELSE NoteFirstSeen(IF fs[Head(rs).place_id] = <<>>
                       THEN [fs EXCEPT ![Head(rs).place_id] = <<Head(rs)>>]
                       ELSE fs,
                     Tail(rs))

RECURSIVE RepeatsDiffering(_, _)
RepeatsDiffering(fs, rs) ==
  IF rs = <<>> THEN FALSE
  ELSE \/ (fs[Head(rs).place_id] # <<>> /\ fs[Head(rs).place_id] # <<Head(rs)>>)
       \/ RepeatsDiffering(NoteFirstSeen(fs, <<Head(rs)>>), Tail(rs))

\* Array.from(records.keys()).slice(0, 100)
PlaceIdsOf(recs) ==
  [i \in 1..(IF Len(recs) < PlacesCap THEN Len(recs) ELSE PlacesCap) |-> recs[i].place_id]

\* records.get(place_id)
MapGet(recs, id) == recs[CHOOSE i \in DOMAIN recs : recs[i].place_id = id]

\* what getPlaceDetails resolves to: null on a non-OK status, else json.result
PlaceDetailsOutcomes == {"null", "noWebsite", "website"}

\* the record the mapper's try block returns
DetailRecord(id, basic, pd, email) ==
  [place_id |-> id,
   name     |-> IF pd = "null" THEN basic.name ELSE "dn",
   address  |-> IF pd = "null" THEN basic.address ELSE "da",
   phone    |-> IF pd = "null" THEN "null" ELSE "p",
   website  |-> IF pd = "website" THEN "w" ELSE "null",
   email    |-> email]

\* extractEmailFromWebsite(website): null for a null url, and everything
\* else is inside try/catch
ExtractOutcomes(pd) == IF pd = "website" THEN {"null", "e"} ELSE {"null"}

InitA ==
  /\ script = "places"
  /\ browser = "none"
  /\ results = <<>>
  /\ index = 1
  /\ exitCode = -1
  /\ csvWritten = NotWritten
  /\ DIdle
  /\ RIdle
  /\ EIdle
  /\ SIdle
  /\ a_pc = "search"
  /\ loc = 1
  /\ records = <<>>
  /\ pageI = 0
  /\ token = FALSE
  /\ placeIds = <<>>
  /\ workers = <<>>
  /\ tries = <<>>
  /\ details = <<>>
  /\ jsonWritten = NotWritten
  /\ firstSeen = [id \in Ids |-> <<>>]
  /\ dupSeen = FALSE
  /\ deniedAt = 0
  /\ fatalIn = "none"

aShared == <<script, browser, results, index, dVars, rVars, eVars, sVars>>

\* after the body of for (const loc of LOCATIONS): the next location, or
\* the details phase after the last one (token and i are locals of the body)
AfterLocation ==
  IF loc = NumLocations
    THEN a_pc' = "details" /\ loc' = NumLocations
    ELSE a_pc' = "search" /\ loc' = loc + 1

\* the loop head and the first request of a location:
\*   if (records.size >= 100) break;
\*   let page = await textSearch({ location: loc.q });
\* textSearch throws on REQUEST_DENIED (and fetch / res.json() may reject);
\* this call is not inside the loop's try, so the exception reaches main's catch
A_Search ==
  /\ script = "places" /\ a_pc = "search"
  /\ IF Len(records) >= PlacesCap
       THEN /\ a_pc' = "details"
            /\ loc' = NumLocations
            /\ UNCHANGED <<records, pageI, token, aGhost, exitCode>>
       ELSE \E status \in {"OK", "REQUEST_DENIED", "fetchError"} :
              IF status = "OK"
                THEN \E rs \in ResultPages, next \in BOOLEAN :
                       /\ records' = AddResults(records, rs)
                       /\ firstSeen' = NoteFirstSeen(firstSeen, rs)
                       /\ dupSeen' = (dupSeen \/ RepeatsDiffering(firstSeen, rs))
                       /\ token' = next
                       /\ pageI' = 0
                       /\ IF next THEN a_pc' = "nextPage" /\ loc' = loc ELSE AfterLocation
                       /\ UNCHANGED <<deniedAt, fatalIn, exitCode>>
                ELSE /\ a_pc' = "fatal"
                     /\ fatalIn' = "search"
                     /\ deniedAt' = IF status = "REQUEST_DENIED" THEN loc ELSE deniedAt
                     /\ exitCode' = 0
                     /\ UNCHANGED <<loc, records, pageI, token, firstSeen, dupSeen>>
  /\ UNCHANGED <<aShared, csvWritten, placeIds, workers, tries, details, jsonWritten>>

\* one iteration of for (let i = 0; i < 2 && token; i++): the request is
\* inside try/catch and an exception breaks out of the pagination loop
A_NextPage ==
  /\ script = "places" /\ a_pc = "nextPage"
  /\ \E status \in {"OK", "REQUEST_DENIED", "fetchError"} :
       IF status = "OK"
         THEN \E rs \in ResultPages, next \in BOOLEAN :
                /\ records' = AddResults(records, rs)
                /\ firstSeen' = NoteFirstSeen(firstSeen, rs)
                /\ dupSeen' = (dupSeen \/ RepeatsDiffering(firstSeen, rs))
                /\ IF pageI + 1 < maxNextPages /\ next
                     THEN /\ a_pc' = "nextPage" /\ loc' = loc
                          /\ token' = next /\ pageI' = pageI + 1
                     ELSE /\ AfterLocation
                          /\ token' = FALSE /\ pageI' = 0
         ELSE /\ AfterLocation
              /\ token' = FALSE /\ pageI' = 0
              /\ UNCHANGED <<records, firstSeen, dupSeen>>
  /\ UNCHANGED <<aShared, exitCode, csvWritten, placeIds, workers, tries, details,
                 jsonWritten, deniedAt, fatalIn>>

\* placeIds = Array.from(records.keys()).slice(0, 100); pMap starts
A_StartDetails ==
  /\ script = "places" /\ a_pc = "details"
  /\ placeIds' = PlaceIdsOf(records)
  /\ workers' = [k \in 1..Len(PlaceIdsOf(records)) |-> "pending"]
  /\ tries' = [k \in 1..Len(PlaceIdsOf(records)) |-> 0]
  /\ details' = [k \in 1..Len(PlaceIdsOf(records)) |-> <<>>]
  /\ a_pc' = "pMap"
  /\ UNCHANGED <<aShared, exitCode, csvWritten, loc, records, pageI, token, jsonWritten,
                 aGhost>>

Running(w) == {k \in DOMAIN w : w[k] = "running"}

\* pMap calls the mapper for the next place while fewer than 3 are running
A_StartWorker(k) ==
  /\ script = "places" /\ a_pc = "pMap"
  /\ k \in DOMAIN workers /\ workers[k] = "pending"
  /\ \A j \in 1..(k - 1) : workers[j] # "pending"
  /\ Cardinality(Running(workers)) < pMapConcurrency
  /\ workers' = [workers EXCEPT ![k] = "running"]
  /\ UNCHANGED <<aShared, exitCode, csvWritten, a_pc, loc, records, pageI, token, placeIds,
                 tries, details, jsonWritten, aGhost>>

\* one call of getPlaceDetails inside pRetry, tries[k] failed calls
\* before it.  When it resolves, the email is extracted and the mapper
\* returns the record.  When it rejects and the retries are used up, pRetry
\* rejects and the mapper's catch block runs: it reads `basic`, which is
\* declared by const inside the try block and is not in scope in the catch
\* block, so the catch block throws a ReferenceError; the mapper rejects,
\* pMap rejects and main's catch logs a fatal error.
A_PlaceDetails(k) ==
  /\ script = "places" /\ a_pc = "pMap"
  /\ k \in DOMAIN workers /\ workers[k] = "running"
  /\ \E ok \in BOOLEAN :
       IF ok
         THEN /\ \E pd \in PlaceDetailsOutcomes : \E email \in ExtractOutcomes(pd) :
                   details' = [details EXCEPT ![k] =
                     <<DetailRecord(placeIds[k], MapGet(records, placeIds[k]), pd, email)>>]
              /\ workers' = [workers EXCEPT ![k] = "done"]
              /\ UNCHANGED <<tries, a_pc, fatalIn, exitCode>>
         ELSE IF tries[k] < detailsRetries
                THEN /\ tries' = [tries EXCEPT ![k] = @ + 1]
                     /\ UNCHANGED <<workers, details, a_pc, fatalIn, exitCode>>
                ELSE /\ workers' = [workers EXCEPT ![k] = "threw"]
                     /\ tries' = tries
                     /\ a_pc' = "fatal"
                     /\ fatalIn' = "details"
                     /\ exitCode' = 0
                     /\ UNCHANGED details
  /\ UNCHANGED <<aShared, csvWritten, loc, records, pageI, token, placeIds, jsonWritten,
                 firstSeen, dupSeen, deniedAt>>

\* pMap resolved: both files are written from details
A_Write ==
  /\ script = "places" /\ a_pc = "pMap"
  /\ \A k \in DOMAIN workers : workers[k] = "done"
  /\ jsonWritten' = Written([k \in DOMAIN details |-> details[k][1]])
  /\ csvWritten' = Written([k \in DOMAIN details |-> details[k][1]])
  /\ a_pc' = "done"
  /\ exitCode' = 0
  /\ UNCHANGED <<aShared, loc, records, pageI, token, placeIds, workers, tries, details,
                 aGhost>>

NextA ==
  \/ A_Search
  \/ A_NextPage
  \/ A_StartDetails
  \/ \E k \in 1..PlacesCap : A_StartWorker(k)
  \/ \E k \in 1..PlacesCap : A_PlaceDetails(k)
  \/ A_Write

SpecA == InitA /\ [][NextA]_vars

\* ------------------------------------------------- the email extractors
\* One call of scrapeWebsiteForEmail(url, browser) (index.js:23),
\* scrapeWebsiteForEmail(url) (part_001:29) or extractEmailFromWebsite(url)
\* (index.js:338) on pages the environment serves.

\* const possiblePaths = ["", "/contact", "/contact-us", "/about", "/about-us"]
possiblePaths == <<"", "/contact", "/contact-us", "/about", "/about-us">>

\* the email-shaped strings a page can carry
Emails == {"info@example.com", "a@clinic.hu", "v@w3.org"}

\* what a page holds, in document order: mailto links (the target of one
\* may fail to be an address, "junk") and email-shaped strings in its text
PageItems ==
  {[kind |-> "mailto", addr |-> a] : a \in Emails \cup {"junk"}}
    \cup {[kind |-> "text", addr |-> a] : a \in Emails}

\* most items on one page
MaxItems == 2

PageContents == SeqsUpTo(PageItems, MaxItems)

\* emailRegex.test(e)
EmailShaped(a) == a \in Emails

\* e.includes("example.com"), e.includes("w3.org")
IncludesExample(a) == a = "info@example.com"
IncludesW3(a) == a = "v@w3.org"

Addrs(items) == [i \in DOMAIN items |-> items[i].addr]

\* page.$$eval('a[href^="mailto:"]', links => links.map(href minus "mailto:"))
MailtoLinks(content) ==
  LET IsMailto(it) == it.kind = "mailto" IN Addrs(SelectSeq(content, IsMailto))

\* content.match(emailRegex): the markup holds the href of a mailto link
\* too, so its target is matched like an address in the text
ContentMatches(content) == SelectSeq(Addrs(content), EmailShaped)

\* array.find(test) || null, given the elements that pass the test
FirstOf(passing) == IF passing = <<>> THEN "null" ELSE passing[1]

\* index.js:39-58, one path of scrapeWebsiteForEmail(url, browser): the
\* mailto links are tested for shape only, the content matches are filtered
BrowserScan(content) ==
  LET Plausible(e) == ~IncludesExample(e) /\ ~IncludesW3(e)
  IN  IF MailtoLinks(content) # <<>> /\ FirstOf(SelectSeq(MailtoLinks(content), EmailShaped)) # "null"
        THEN FirstOf(SelectSeq(MailtoLinks(content), EmailShaped))
        ELSE FirstOf(SelectSeq(ContentMatches(content), Plausible))

\* part_001:36-37: matches.find(email => !email.includes('example.com')) || null
AxiosScan(content) ==
  LET NotExample(e) == ~IncludesExample(e)
  IN  FirstOf(SelectSeq(ContentMatches(content), NotExample))

\* index.js:350-357: the first mailto link when its target has the shape
\* of an address, else the first content match, unfiltered
FetchScan(content) ==
  LET AnyMatch(e) == TRUE
  IN  IF MailtoLinks(content) # <<>> /\ EmailShaped(MailtoLinks(content)[1])
        THEN MailtoLinks(content)[1]
        ELSE FirstOf(SelectSeq(ContentMatches(content), AnyMatch))

\* an address that is no placeholder
ValidEmail(a) == EmailShaped(a) /\ ~IncludesExample(a) /\ ~IncludesW3(a)

\* the first valid address on a page, or "none"
ValidOn(content) ==
  IF FirstOf(SelectSeq(Addrs(content), ValidEmail)) = "null" THEN "none"
  ELSE FirstOf(SelectSeq(Addrs(content), ValidEmail))

\* no email-shaped string on the page other than info@example.com
OnlyExample(content) ==
  \A i \in DOMAIN content :
    EmailShaped(content[i].addr) => content[i].addr = "info@example.com"

InitE ==
  /\ script = "extract"
  /\ browser = "open"
  /\ results = <<>>
  /\ index = 1
  /\ exitCode = -1
  /\ csvWritten = NotWritten
  /\ DIdle
  /\ RIdle
  /\ AIdle
  /\ SIdle
  /\ extractor \in {"browser", "axios", "fetch"}
  /\ e_pc = "start"
  /\ e_url \in {"", "w"}
  /\ e_path = 1
  /\ e_tab = "none"
  /\ e_result = "pending"
  /\ e_content = <<>>
  /\ e_loaded = <<>>
  /\ e_onlyExample = TRUE

eFrame == <<sharedVars, dVars, rVars, aVars, sVars, extractor, e_url>>

\* a page was fetched: remember what it held
NoteLoaded(content) ==
  /\ e_content' = content
  /\ e_loaded' = Append(e_loaded, [path |-> possiblePaths[e_path], yields |-> ValidOn(content)])
  /\ e_onlyExample' = (e_onlyExample /\ OnlyExample(content))

\* if (!url) return null;  and, in scrapeWebsiteForEmail(url, browser),
\* const page = await browser.newPage() before the try block
E_Start ==
  /\ script = "extract" /\ e_pc = "start"
  /\ IF e_url = ""
       THEN e_pc' = "returned" /\ e_result' = "null" /\ e_tab' = e_tab
       ELSE IF extractor = "browser"
              THEN \E ok \in BOOLEAN :
                     IF ok THEN e_pc' = "probe" /\ e_tab' = "open" /\ e_result' = e_result
                           ELSE e_pc' = "threw" /\ e_tab' = e_tab /\ e_result' = e_result
              ELSE e_pc' = "fetch" /\ e_tab' = e_tab /\ e_result' = e_result
  /\ UNCHANGED <<eFrame, e_path, eGhost>>

\* one iteration of for (const path of possiblePaths): page.goto, the
\* mailto links, the content.  A rejection is caught: return null.
E_Probe ==
  /\ script = "extract" /\ e_pc = "probe"
  /\ \E ok \in BOOLEAN :
       IF ok
         THEN \E content \in PageContents :
                /\ NoteLoaded(content)
                /\ IF BrowserScan(content) # "null"
                     THEN e_result' = BrowserScan(content) /\ e_pc' = "finally" /\ e_path' = e_path
                     ELSE IF e_path = Len(possiblePaths)
                            THEN e_result' = "null" /\ e_pc' = "finally" /\ e_path' = e_path
                            ELSE e_result' = e_result /\ e_pc' = "probe" /\ e_path' = e_path + 1
         ELSE /\ e_result' = "null" /\ e_pc' = "finally"
              /\ UNCHANGED <<e_path, eGhost>>
  /\ UNCHANGED <<eFrame, e_tab>>

\* finally { await page.close(); }: a rejection replaces the return value
E_Finally ==
  /\ script = "extract" /\ e_pc = "finally"
  /\ \E ok \in BOOLEAN :
       IF ok THEN e_tab' = "closed" /\ e_pc' = "returned"
             ELSE e_tab' = e_tab /\ e_pc' = "threw"
  /\ UNCHANGED <<eFrame, e_path, e_result, eGhost>>

\* the single request of scrapeWebsiteForEmail(url) and of
\* extractEmailFromWebsite(url), inside try/catch; the latter returns null
\* when !res.ok
E_Fetch ==
  /\ script = "extract" /\ e_pc = "fetch"
  /\ \E ok \in BOOLEAN :
       IF ok
         THEN \E content \in PageContents :
                /\ NoteLoaded(content)
                /\ e_result' = IF extractor = "axios" THEN AxiosScan(content)
                               ELSE FetchScan(content)
         ELSE e_result' = "null" /\ UNCHANGED eGhost
  /\ e_pc' = "returned"
  /\ UNCHANGED <<eFrame, e_path, e_tab>>

NextE ==
  \/ E_Start
  \/ E_Probe
  \/ E_Finally
  \/ E_Fetch

SpecE == InitE /\ [][NextE]_vars

\* ------------------------------------------------------------ autoScroll
\* The promise inside page.evaluate of autoScroll (part_001:55-76,
\* index.js:79-102), from the point where the feed wrapper has been found.
\* Heights are counted in multiples of `distance`.  A callback that enters
\* its settle delay sleeps scrollDelay ms while the interval keeps firing
\* every 700 ms (1000 ms): it wakes after at least minTicksAsleep and at
\* most maxTicksAsleep further interval callbacks.

\* largest scrollHeight of the feed when scrolling starts
MaxScrollHeight == 3
\* how often the feed can grow before its height stops growing
MaxGrowth == 2
\* interval callbacks within one settle delay: scrollDelay 2000 over an
\* interval of 700 (part_001:58, 75)
minTicksAsleep == 2
\* scrollDelay 3000 over an interval of 1000 (index.js:82, 101)
maxTicksAsleep == 3

\* the test written with < in place of <=
SettledStrict(before, after) == after < before

\* if (scrollHeightAfter <= scrollHeightBefore)
Settled(before, after) == after <= before

InitS ==
  /\ script = "scroll"
  /\ browser = "open"
  /\ results = <<>>
  /\ index = 1
  /\ exitCode = -1
  /\ csvWritten = NotWritten
  /\ DIdle
  /\ RIdle
  /\ AIdle
  /\ EIdle
  /\ s_pc = "run"
  /\ scrollHeight \in 1..MaxScrollHeight
  /\ totalHeight = 0
  /\ timer = "set"
  /\ sleepers = <<>>
  /\ s_grown = 0
  /\ s_settled = <<>>
  /\ s_overlapped = FALSE

sFrame == <<sharedVars, dVars, rVars, aVars, eVars>>

\* one more interval callback has fired since these callbacks fell asleep
Aged(sl) == [i \in DOMAIN sl |-> [sl[i] EXCEPT !.age = @ + 1]]

\* the interval fires: scrollHeightBefore = wrapper.scrollHeight;
\* wrapper.scrollBy(0, distance); totalHeight += distance;
\* if (totalHeight >= scrollHeightBefore) { totalHeight = 0; await the delay
S_Tick ==
  /\ script = "scroll" /\ timer = "set"
  /\ \A i \in DOMAIN sleepers : sleepers[i].age < maxTicksAsleep
  /\ IF totalHeight + 1 >= scrollHeight
       THEN /\ totalHeight' = 0
            /\ sleepers' = Append(Aged(sleepers), [before |-> scrollHeight, age |-> 0])
       ELSE /\ totalHeight' = totalHeight + 1
            /\ sleepers' = Aged(sleepers)
  /\ s_overlapped' = (s_overlapped \/ Len(sleepers') >= 2)
  /\ UNCHANGED <<sFrame, s_pc, scrollHeight, timer, s_grown, s_settled>>

\* the settle delay of the oldest sleeping callback is over:
\* scrollHeightAfter = wrapper.scrollHeight;
\* if (scrollHeightAfter <= scrollHeightBefore) { clearInterval(timer); resolve(); }
S_Wake ==
  /\ script = "scroll" /\ sleepers # <<>>
  /\ Head(sleepers).age >= minTicksAsleep \/ timer = "cleared"
  /\ sleepers' = Tail(sleepers)
  /\ IF Settled(Head(sleepers).before, scrollHeight)
       THEN /\ timer' = "cleared"
            /\ s_pc' = "resolved"
            /\ s_settled' = IF s_pc = "run"
                              THEN <<[before |-> Head(sleepers).before, after |-> scrollHeight]>>
                              ELSE s_settled
       ELSE UNCHANGED <<timer, s_pc, s_settled>>
  /\ UNCHANGED <<sFrame, scrollHeight, totalHeight, s_grown, s_overlapped>>

\* the map loads more listings into the feed: wrapper.scrollHeight grows
S_Grow ==
  /\ script = "scroll" /\ s_pc = "run"
  /\ s_grown < MaxGrowth
  /\ scrollHeight' = scrollHeight + 1
  /\ s_grown' = s_grown + 1
  /\ UNCHANGED <<sFrame, s_pc, totalHeight, timer, sleepers, s_settled, s_overlapped>>

NextS ==
  \/ S_Tick
  \/ S_Wake
  \/ S_Grow

SpecS == InitS /\ [][NextS]_vars

\* the event loop runs every timer callback that is due
SpecSFair == SpecS /\ WF_vars(S_Tick) /\ WF_vars(S_Wake)

\* -------------------------------------- the two browser-backed pipelines
InitBrowser == InitD \/ InitR

NextBrowser == NextD \/ NextR

SpecBrowser == InitBrowser /\ [][NextBrowser]_vars

\* the country tasks that have started and not finished
InProgress == {t \in Countries : r_pc[t] \in {"search", "listing", "sleep"}}

\* ---------------------------------------------------- any of the scripts
Init == InitD \/ InitR \/ InitA \/ InitE \/ InitS

Next == NextD \/ NextR \/ NextA \/ NextE \/ NextS

Spec == Init /\ [][Next]_vars

\* ------------------------------------------------------------ properties
Min(a, b) == IF a < b THEN a ELSE b

\* C1: after any run of a browser-backed pipeline, results holds at most
\* one record per googleUrl.
C1_OneRecordPerGoogleUrl ==
  \A i, j \in 1..Len(results) :
    results[i].googleUrl = results[j].googleUrl => i = j

\* C2: in scrapeReikiPractitioners results.length never exceeds the cap,
\* whatever the interleaving of the country tasks.
C2_ReikiCapNeverExceeded ==
  script = "reiki" => Len(results) <= ReikiCap

\* C3: a REQUEST_DENIED on the first request of a location fails only that
\* location: the run is not aborted and, once it has ended, the places
\* collected from the other locations are in both output files.
C3_DeniedLocationDoesNotAbort ==
  deniedAt # 0 =>
    /\ a_pc # "fatal"
    /\ (a_pc = "done" => jsonWritten.done /\ csvWritten.done)

\* C4: a getPlaceDetails failure that outlasts its retries never escapes
\* the place's worker: no worker ends by throwing, the details phase never
\* reaches main's catch, and a finished run has written one record per
\* collected place to both files.
C4_DetailsFailureStaysInWorker ==
  /\ \A k \in DOMAIN workers : workers[k] # "threw"
  /\ fatalIn # "details"
  /\ (a_pc = "done" =>
        /\ jsonWritten.done /\ Len(jsonWritten.rows) = Len(placeIds)
        /\ csvWritten.done /\ Len(csvWritten.rows) = Len(placeIds))

\* C5: records holds exactly one entry per place_id seen in any search
\* result, none for a place_id not seen, and the entry carries the name and
\* address of the first result that had that place_id.
C5_OneEntryPerPlaceFirstSeenKept ==
  \A id \in Ids :
    IF firstSeen[id] = <<>>
      THEN ~Has(records, id)
      ELSE /\ Cardinality({i \in DOMAIN records : records[i].place_id = id}) = 1
           /\ MapGet(records, id) =
                [place_id |-> id,
                 name     |-> firstSeen[id][1].name,
                 address  |-> firstSeen[id][1].formatted_address]

\* a place_id came back with another name and address, after the search
\* had moved past the location that first returned it
C5_Witness ==
  /\ dupSeen
  /\ loc > 1
  /\ \E id \in Ids : firstSeen[id] # <<>> /\ Has(records, id)

\* C6: in scrapeDentists results.length never exceeds the cap; once it has
\* reached the cap no listing is processed, no website fetch or search
\* navigation is issued, no attempt and no city is started; and when a city
\* yielded at least cap listings the run ends with exactly cap records
\* and without querying any later city.
C6_DentistsCapStopsTheRun ==
  /\ [](Len(results) <= DentistsCap)
  /\ [][Len(results) >= DentistsCap =>
          /\ results' = results
          /\ fetches' = fetches
          /\ queried' = queried
          /\ attempts' = attempts
          /\ city' = city]_vars
  /\ [](\A c \in Cities :
          (d_pc = "exited" /\ exitCode = 0 /\ yielded[c] >= DentistsCap) =>
            /\ Len(results) = DentistsCap
            /\ queried \subseteq 1..c
            /\ \A later \in Cities : later > c => attempts[later] = 0)

\* the first city yielded more listings than the cap: the run ended with
\* cap records, a listing of the feed left unprocessed, one city queried
C6_Witness ==
  /\ d_pc = "exited" /\ exitCode = 0
  /\ yielded[1] > DentistsCap
  /\ Len(results) = DentistsCap
  /\ queried = {1}
  /\ fetches > 0

\* C7: every region is attempted at most twice and a regional failure never
\* aborts the whole run: no country task ends by rejecting.
C7_RegionalFailureNeverAborts ==
  /\ \A c \in Cities : attempts[c] <= 2
  /\ \A t \in Countries : r_attempt[t] <= 2 /\ r_pc[t] # "rejected"

\* C8: when the scroll timeout ends the race, the listings rendered in the
\* feed by then are parsed and added to results in that same attempt (as
\* far as the cap allows).
C8_ScrollTimeoutKeepsPartialResults ==
  (d_pc = "finally" /\ scrollOutcome = "timeout") =>
    Len(results) - startLen = Min(Len(rendered), DentistsCap - startLen)

\* C9: once the browser was started the run ends with status 0 and the CSV
\* holds every collected record; status 1 only when the launch failed, and
\* then nothing is written.
C9_ExitZeroOnceBrowserStarted ==
  (script \in {"dentists", "reiki"} /\ exitCode # -1) =>
    IF browser = "none"
      THEN exitCode = 1 /\ ~csvWritten.done
      ELSE exitCode = 0 /\ csvWritten = Written(results)

\* C10: scrapeWebsiteForEmail(url, browser) never aborts its caller: a
\* country task that is fetching for a listing leaves that step only by
\* pushing the listing to results.
C10_EmailFailureNeverAbortsListing ==
  [][\A t \in Countries :
       (r_pc[t] = "listing" /\ r_pc'[t] # "listing") =>
         Len(results') = Len(results) + 1]_vars

\* C11: each of the three email extractors returns none when the only
\* email-shaped string on every fetched page is info@example.com, be it a
\* mailto: link target or inline page text.
C11_ExampleAddressYieldsNone ==
  (e_pc = "returned" /\ e_onlyExample) => e_result = "null"

\* C12: scrapeWebsiteForEmail(url, browser) probes the paths in the order
\* of possiblePaths and stops at first success: a returned email is the
\* valid email of the last path navigated to, no earlier path held a valid
\* one, and null is returned only after all five paths yielded none.
C12_PathsInOrderFirstSuccess ==
  (extractor = "browser" /\ e_pc = "returned" /\ e_url # "") =>
    /\ \A i \in DOMAIN e_loaded : e_loaded[i].path = possiblePaths[i]
    /\ IF e_result # "null"
         THEN /\ e_loaded # <<>>
              /\ e_loaded[Len(e_loaded)].yields = e_result
              /\ \A i \in 1..(Len(e_loaded) - 1) : e_loaded[i].yields = "none"
         ELSE /\ Len(e_loaded) = Len(possiblePaths)
              /\ \A i \in DOMAIN e_loaded : e_loaded[i].yields = "none"

\* C13: in scrapeReikiPractitioners insertion into results follows the
\* order of the countries list (no record of a later country precedes a
\* record of an earlier one), and within a country the listings are inserted
\* in the order they were parsed from the feed.
C13_InsertionFollowsCountryOrder ==
  [][\A t \in Countries :
       (r_pc[t] = "listing" /\ r_pc'[t] = "sleep") =>
         /\ t >= r_maxPusher
         /\ results' = Append(results, ReikiRecord(index, Head(r_parents[t])))
         /\ r_parents'[t] = Tail(r_parents[t])]_vars

\* C14: every page opened by a region attempt or by scrapeWebsiteForEmail(url,
\* browser) is closed exactly once before its owner finishes, on every
\* path, and the browser is closed before scrapeDentists /
\* scrapeReikiPractitioners returns or throws.
C14_PagesAndBrowserReleased ==
  /\ \A t \in Countries :
       /\ (r_pc[t] = "rejected" => r_page[t] # "closed")
       /\ (r_pc[t] = "done" => r_page[t] # "open")
  /\ (d_pc \in {"afterWhile", "closeBrowser", "exited"} => page # "open")
  /\ ((extractor = "browser" /\ e_pc = "returned" /\ e_url # "") => e_tab = "closed")
  /\ ((script \in {"dentists", "reiki"} /\ exitCode # -1) =>
        /\ browser # "open"
        /\ \A t \in Countries : r_page[t] # "open")

\* C15: the number of country tasks in progress at the same time never
\* exceeds concurrencyLimit.
C15_AtMostConcurrencyLimitTasks ==
  Cardinality(InProgress) <= concurrencyLimit

\* C16: in both browser-backed pipelines the record at position k of
\* results has index k, the counter index equals results.length + 1, and
\* results only grows, by appending.
C16_IndexIsInsertionOrder ==
  /\ [](\A k \in 1..Len(results) : results[k].index = k)
  /\ [](index = Len(results) + 1)
  /\ [][/\ Len(results') >= Len(results)
        /\ \A k \in 1..Len(results) : results'[k] = results[k]]_vars

\* two country tasks pushed while both were past the cap test, so results
\* grew past the cap with consecutive indices
C16_Witness ==
  /\ script = "reiki"
  /\ Len(results) = ReikiCap + 1
  /\ r_maxPusher > 1
  /\ results[Len(results)].index = ReikiCap + 1

\* C17: once the feed's scroll height has stopped growing, autoScroll
\* eventually resolves with its interval timer cleared, although its
\* callbacks overlap and share totalHeight; and it resolves only after a
\* callback measured, one settle delay after scrolling, a scroll height not
\* greater than the one it measured before scrolling.
C17_AutoScrollResolves ==
  /\ <>(s_pc = "resolved" /\ timer = "cleared")
  /\ [](s_pc = "resolved" =>
          /\ timer = "cleared"
          /\ s_settled # <<>>
          /\ s_settled[1].after <= s_settled[1].before)

\* autoScroll resolved after the feed had grown and while several
\* callbacks were inside their settle delay at once
C17_Witness ==
  /\ s_pc = "resolved" /\ timer = "cleared"
  /\ s_grown > 0
  /\ s_overlapped
  /\ s_settled # <<>>

====
